---- MODULE Spec2Model ----
(***************************************************************************)
(* A model of the LinkedIn Voyager client (class Voyager extends           *)
(* APIClient) and the helpers it uses.                                     *)
(*                                                                         *)
(* JavaScript values are tagged records, so that undefined, null, '',      *)
(* [], {} and NaN stay distinct.  Strings the code only copies or compares *)
(* are TLA+ strings (Str); strings the code takes apart (urns) are         *)
(* sequences of one-character strings (Chars).  An object keeps its keys   *)
(* in insertion order, because the code reads Object.keys(x)[0].           *)
(***************************************************************************)
EXTENDS Integers, Sequences, FiniteSets, TLC

VARIABLES pc, op, arg, requests, pending, answers, arrived, sub, outcome, raw,
          once, normalizations, storage

vars == <<pc, op, arg, requests, pending, answers, arrived, sub, outcome, raw,
          once, normalizations, storage>>

(***************************************************************************)
(* Bounds of the model.                                                    *)
(***************************************************************************)
MaxUrnLen == 3
MaxPositions == 2

(***************************************************************************)
(* JavaScript values.                                                      *)
(***************************************************************************)
Undefined == [t |-> "undefined"]
Null == [t |-> "null"]
NaN == [t |-> "NaN"]
Str(s) == [t |-> "string", s |-> s]
Chars(c) == [t |-> "string", c |-> c]
Num(n) == [t |-> "number", n |-> n]
Bool(b) == [t |-> "boolean", b |-> b]
Arr(a) == [t |-> "array", a |-> a]
Obj(pairs) ==
  [t |-> "object",
   keys |-> [i \in 1..Len(pairs) |-> pairs[i][1]],
   o |-> [k \in {pairs[i][1] : i \in 1..Len(pairs)} |->
            pairs[CHOOSE i \in 1..Len(pairs) : pairs[i][1] = k][2]]]
EmptyObj == Obj(<<>>)
EmptyArr == Arr(<<>>)
EmptyStr == Str("")

IsStr(x) == x.t = "string"
IsObj(x) == x.t = "object"
IsArr(x) == x.t = "array"
IsNullish(x) == x.t \in {"undefined", "null"}
Text(x) == IF "s" \in DOMAIN x THEN x.s ELSE x.c
IsEmptyStr(x) == IsStr(x) /\ Len(Text(x)) = 0

\* ToBoolean(x), as used by !x, x || y, x && y and if (x)
Truthy(x) ==
  CASE IsNullish(x) -> FALSE
    [] x.t = "NaN" -> FALSE
    [] IsStr(x) -> Len(Text(x)) > 0
    [] x.t = "number" -> x.n # 0
    [] x.t = "boolean" -> x.b
    [] OTHER -> TRUE

\* x || y
Or(x, y) == IF Truthy(x) THEN x ELSE y

\* x.hasOwnProperty(k) on an object
Has(x, k) == IsObj(x) /\ k \in DOMAIN x.o

\* x[k] on a value that is neither null nor undefined
Get(x, k) == IF Has(x, k) THEN x.o[k] ELSE Undefined

\* Object.keys(x)[0]
FirstKey(x) == IF Len(x.keys) = 0 THEN Undefined ELSE Str(x.keys[1])

\* Object.assign(target, source) for a source that is an object
Assign(target, source) ==
  LET new == SelectSeq(source.keys, LAMBDA k : k \notin DOMAIN target.o)
  IN [t |-> "object",
      keys |-> target.keys \o new,
      o |-> [k \in DOMAIN target.o \cup DOMAIN source.o |->
               IF k \in DOMAIN source.o THEN source.o[k] ELSE target.o[k]]]

\* target[k] = v
Put(target, k, v) == Assign(target, Obj(<< <<k, v>> >>))

(***************************************************************************)
(* The result of evaluating a function body: a returned value or a thrown  *)
(* error.                                                                  *)
(***************************************************************************)
Ret(v) == [threw |-> FALSE, value |-> v]
Throw(e) == [threw |-> TRUE, error |-> e]
TypeError == [name |-> "TypeError"]
SyntaxError == [name |-> "SyntaxError"]
NetworkError == [name |-> "NetworkError"]
Error(message) == [name |-> "Error", message |-> message]

LI_CDN == "https://media-exp2.licdn.com/media"

(***************************************************************************)
(* String.prototype.split(':') and parseInt(s, 10) on character sequences. *)
(***************************************************************************)
Digits == <<"0", "1", "2", "3", "4", "5", "6", "7", "8", "9">>
IsDigit(ch) == \E i \in 1..10 : Digits[i] = ch
DigitVal(ch) == (CHOOSE i \in 1..10 : Digits[i] = ch) - 1

RECURSIVE Split(_, _)
\* the pieces of s between occurrences of sep; always at least one piece
Split(s, sep) ==
  IF \A i \in 1..Len(s) : s[i] # sep
  THEN <<s>>
  ELSE LET i == CHOOSE j \in 1..Len(s) :
                  s[j] = sep /\ \A l \in 1..(j - 1) : s[l] # sep
       IN <<SubSeq(s, 1, i - 1)>> \o Split(SubSeq(s, i + 1, Len(s)), sep)

RECURSIVE SkipSpace(_)
SkipSpace(s) == IF Len(s) > 0 /\ s[1] = " " THEN SkipSpace(Tail(s)) ELSE s

RECURSIVE DigitPrefix(_)
\* the longest prefix of s made of decimal digits
DigitPrefix(s) ==
  IF Len(s) > 0 /\ IsDigit(s[1]) THEN <<s[1]>> \o DigitPrefix(Tail(s)) ELSE <<>>

RECURSIVE DecimalVal(_)
DecimalVal(ds) ==
  IF Len(ds) = 0 THEN 0
  ELSE 10 * DecimalVal(SubSeq(ds, 1, Len(ds) - 1)) + DigitVal(ds[Len(ds)])

\* parseInt(s, 10) for a string s: leading blanks, an optional sign, then
\* as many decimal digits as there are; NaN when there is none
ParseInt(s) ==
  LET body == SkipSpace(s)
      signed == Len(body) > 0 /\ body[1] \in {"+", "-"}
      ds == DigitPrefix(IF signed THEN Tail(body) ELSE body)
  IN IF Len(ds) = 0 THEN NaN
     ELSE IF signed /\ body[1] = "-" THEN Num(0 - DecimalVal(ds))
     ELSE Num(DecimalVal(ds))

\* a truthy urn that is not a string has no split method
_scrubIdFromUrn(urn) ==
  IF ~Truthy(urn) THEN Ret(EmptyStr)
  ELSE IF ~IsStr(urn) THEN Throw(TypeError)
  ELSE LET pieces == Split(Text(urn), ":")
       IN Ret(ParseInt(pieces[Len(pieces)]))

(***************************************************************************)
(* _scrubPathToResource: resource.constructor throws on null and           *)
(* undefined; resource[key].id throws when resource[key] is null or        *)
(* undefined, which is the case for key = undefined on {}.                 *)
(***************************************************************************)
_scrubPathToResource(resource) ==
  IF IsNullish(resource) THEN Throw(TypeError)
  ELSE IF ~IsObj(resource) THEN Ret(EmptyStr)
  ELSE LET key == FirstKey(resource)
           variant == IF key = Undefined THEN Undefined ELSE resource.o[key.s]
       IN IF IsNullish(variant) THEN Throw(TypeError)
          ELSE LET resourcePath == Or(Get(variant, "id"), EmptyStr)
               IN Ret(IF Truthy(resourcePath)
                      THEN Str(LI_CDN \o resourcePath.s)
                      ELSE resourcePath)

(***************************************************************************)
(* Array.prototype.map with a callback that may throw: the first throwing  *)
(* element aborts the map.  Calling .map on anything but an array throws.  *)
(***************************************************************************)
Collect(rs) ==
  IF \E i \in 1..Len(rs) : rs[i].threw
  THEN rs[CHOOSE i \in 1..Len(rs) : rs[i].threw /\ \A j \in 1..(i - 1) : ~rs[j].threw]
  ELSE Ret(Arr([i \in 1..Len(rs) |-> rs[i].value]))

ArrMap(x, F(_)) ==
  IF ~IsArr(x) THEN Throw(TypeError)
  ELSE Collect([i \in 1..Len(x.a) |-> F(x.a[i])])

\* x.name inside a map callback
NameOf(x) == IF IsNullish(x) THEN Throw(TypeError) ELSE Ret(Get(x, "name"))

\* the first thrown error of a sequence of statements, in program order
FirstThrow(rs) ==
  rs[CHOOSE i \in 1..Len(rs) : rs[i].threw /\ \A j \in 1..(i - 1) : ~rs[j].threw]
AnyThrow(rs) == \E i \in 1..Len(rs) : rs[i].threw

\* x.length > 0 for a value that is neither null nor undefined
NonEmptyLength(x) ==
  \/ IsArr(x) /\ Len(x.a) > 0
  \/ IsStr(x) /\ Len(Text(x)) > 0

(***************************************************************************)
(* Entity scrubbers.                                                       *)
(***************************************************************************)
_scrubMemberInfo(member) ==
  IF ~Truthy(member)
  THEN Ret(Obj(<< <<"firstname", EmptyStr>>, <<"lastname", EmptyStr>>,
                  <<"occupation", EmptyStr>>, <<"publicIdentifier", EmptyStr>> >>))
  ELSE LET mm == Get(member, "member")
           Field(k) == IF Truthy(mm) /\ Truthy(Get(mm, k)) THEN Get(mm, k) ELSE EmptyStr
           memberInfo == Obj(<< <<"firstname", Field("firstName")>>,
                                <<"lastname", Field("lastName")>>,
                                <<"occupation", Field("occupation")>>,
                                <<"publicIdentifier", Field("publicIdentifier")>> >>)
       IN IF Truthy(mm) /\ Has(mm, "picture")
          THEN LET picture == _scrubPathToResource(mm.o["picture"])
               IN IF picture.threw THEN picture
                  ELSE Ret(Put(memberInfo, "picture", picture.value))
          ELSE Ret(memberInfo)

_scrubPatentInfo(patent) ==
  IF IsNullish(patent) THEN Throw(TypeError)
  ELSE LET patentInfo ==
             Obj(<< <<"applicationNumber", Or(Get(patent, "applicationNumber"), EmptyStr)>>,
                    <<"description", Or(Get(patent, "description"), EmptyStr)>>,
                    <<"filingDate", Or(Get(patent, "filingDate"), EmptyObj)>>,
                    <<"issueDate", Or(Get(patent, "issueDate"), EmptyObj)>>,
                    <<"number", Or(Get(patent, "number"), EmptyStr)>>,
                    <<"pending", Get(patent, "pending")>>,
                    <<"title", Or(Get(patent, "title"), EmptyStr)>>,
                    <<"url", Or(Get(patent, "url"), EmptyStr)>> >>)
           inventors == Get(patent, "inventors")
       IN IF ~Has(patent, "inventors") THEN Ret(patentInfo)
          ELSE IF IsNullish(inventors) THEN Throw(TypeError)
          ELSE IF ~NonEmptyLength(inventors) THEN Ret(patentInfo)
          ELSE IF ~IsArr(inventors) THEN Throw(TypeError)
          ELSE IF \E i \in 1..Len(inventors.a) : IsNullish(inventors.a[i])
          THEN Throw(TypeError)
          ELSE LET kept == SelectSeq(inventors.a, LAMBDA inventor : Has(inventor, "member"))
                   scrubbed == Collect([i \in 1..Len(kept) |->
                                          _scrubMemberInfo(kept[i].o["member"])])
               IN IF scrubbed.threw THEN scrubbed
                  ELSE Ret(Put(patentInfo, "inventors", scrubbed.value))

_scrubPublicationInfo(publication) ==
  IF IsNullish(publication) THEN Throw(TypeError)
  ELSE LET publicationInfo ==
             Obj(<< <<"date", Or(Get(publication, "date"), EmptyObj)>>,
                    <<"description", Or(Get(publication, "description"), EmptyStr)>>,
                    <<"name", Or(Get(publication, "name"), EmptyStr)>>,
                    <<"publisher", Or(Get(publication, "publisher"), EmptyStr)>>,
                    <<"url", Or(Get(publication, "url"), EmptyStr)>> >>)
           authors == Get(publication, "authors")
       IN IF ~Has(publication, "authors") THEN Ret(publicationInfo)
          ELSE IF IsNullish(authors) THEN Throw(TypeError)
          ELSE IF ~NonEmptyLength(authors) THEN Ret(publicationInfo)
          ELSE LET scrubbed == ArrMap(authors, _scrubMemberInfo)
               IN IF scrubbed.threw THEN scrubbed
                  ELSE Ret(Put(publicationInfo, "authors", scrubbed.value))

\* project.members = project.members.map(...): the value the statement
\* leaves in the raw project, when it runs to completion
ScrubbedMembers(project) ==
  LET members == Get(project, "members")
  IN IF ~Has(project, "members") THEN Ret(Undefined)
     ELSE IF IsNullish(members) THEN Throw(TypeError)
     ELSE IF ~NonEmptyLength(members) THEN Ret(members)
     ELSE ArrMap(members, _scrubMemberInfo)

_scrubProjectInfoWithMembers(project) ==
  IF IsNullish(project) THEN Throw(TypeError)
  ELSE LET members == ScrubbedMembers(project)
       IN IF members.threw THEN members
          ELSE Ret(Obj(<< <<"description", Or(Get(project, "description"), EmptyStr)>>,
                          <<"timePeriod", Or(Get(project, "timePeriod"), EmptyObj)>>,
                          <<"title", Or(Get(project, "title"), EmptyStr)>>,
                          <<"url", Or(Get(project, "url"), EmptyStr)>>,
                          <<"members", members.value>> >>))

_scrubProjectInfo(project) ==
  IF IsNullish(project) THEN Throw(TypeError)
  ELSE LET projectInfo ==
             Obj(<< <<"description", Or(Get(project, "description"), EmptyStr)>>,
                    <<"timePeriod", Or(Get(project, "timePeriod"), EmptyObj)>>,
                    <<"title", Or(Get(project, "title"), EmptyStr)>>,
                    <<"url", Or(Get(project, "url"), EmptyStr)>> >>)
           members == ScrubbedMembers(project)
       IN IF members.threw THEN members ELSE Ret(projectInfo)

\* the raw project as _scrubProjectInfo leaves it
ProjectAfterScrub(project) ==
  IF IsNullish(project) THEN project
  ELSE LET members == ScrubbedMembers(project)
       IN IF members.threw \/ ~Has(project, "members") THEN project
          ELSE Put(project, "members", members.value)

\* lines 320-324 of _scrubPositionInfo
LinkedInCompanyId(position) ==
  LET companyUrn == Get(position, "companyUrn")
  IN IF ~Truthy(companyUrn) THEN Ret(EmptyStr)
     ELSE IF ~IsStr(companyUrn) THEN Throw(TypeError)
     ELSE LET pieces == Split(Text(companyUrn), ":")
          IN Ret(ParseInt(pieces[Len(pieces)]))

_scrubPositionInfo(position) ==
  IF IsNullish(position) THEN Throw(TypeError)
  ELSE LET linkedInCompanyId == LinkedInCompanyId(position)
           company == Get(position, "company")
           mini == Get(company, "miniCompany")
       IN IF linkedInCompanyId.threw THEN linkedInCompanyId
          ELSE LET positionInfo ==
                     Obj(<< <<"locationName", Or(Get(position, "locationName"), EmptyStr)>>,
                            <<"companyName", Or(Get(position, "companyName"), EmptyStr)>>,
                            <<"linkedInCompanyId", linkedInCompanyId.value>>,
                            <<"description", Or(Get(position, "description"), EmptyStr)>>,
                            <<"timePeriod", Or(Get(position, "timePeriod"), EmptyObj)>>,
                            <<"title", Or(Get(position, "title"), EmptyStr)>> >>)
                   companyInfo ==
                     Obj(<< <<"employeeCountRange", Or(Get(company, "employeeCountRange"), EmptyObj)>>,
                            <<"industries", Or(Get(company, "industries"), EmptyArr)>> >>)
               IN IF ~Has(position, "company") THEN Ret(positionInfo)
                  ELSE IF IsNullish(company) THEN Throw(TypeError)
                  ELSE IF ~Has(company, "miniCompany")
                  THEN Ret(Put(positionInfo, "company", companyInfo))
                  ELSE IF IsNullish(mini) THEN Throw(TypeError)
                  ELSE IF ~Has(mini, "logo")
                  THEN Ret(Put(positionInfo, "company", companyInfo))
                  ELSE LET logo == _scrubPathToResource(mini.o["logo"])
                       IN IF logo.threw THEN logo
                          ELSE Ret(Put(positionInfo, "company",
                                       Put(companyInfo, "logo", logo.value)))

_scrubEducationInfo(education) ==
  IF IsNullish(education) THEN Throw(TypeError)
  ELSE LET educationInfo ==
             Obj(<< <<"activities", Or(Get(education, "activities"), EmptyStr)>>,
                    <<"degreeName", Or(Get(education, "degreeName"), EmptyStr)>>,
                    <<"fieldOfStudy", Or(Get(education, "fieldOfStudy"), EmptyStr)>>,
                    <<"timePeriod", Or(Get(education, "timePeriod"), EmptyObj)>>,
                    <<"schoolName", Or(Get(education, "schoolName"), EmptyStr)>> >>)
           school == Get(education, "school")
           schoolInfo ==
             Obj(<< <<"active", Or(Get(school, "active"), Bool(FALSE))>>,
                    <<"name", Or(Get(school, "schoolName"), EmptyStr)>> >>)
       IN IF ~Has(education, "school") THEN Ret(educationInfo)
          ELSE IF IsNullish(school) THEN Throw(TypeError)
          ELSE IF ~Has(school, "logo")
          THEN Ret(Put(educationInfo, "school", schoolInfo))
          ELSE LET logo == _scrubPathToResource(school.o["logo"])
               IN IF logo.threw THEN logo
                  ELSE Ret(Put(educationInfo, "school", Put(schoolInfo, "logo", logo.value)))

_scrubWebsiteInfoLastKey(website) ==
  IF IsNullish(website) \/ IsNullish(Get(website, "type")) THEN Throw(TypeError)
  ELSE LET type == Get(website, "type")
           tag == IF ~IsObj(type) \/ Len(type.keys) = 0 THEN Undefined
                  ELSE type.o[type.keys[Len(type.keys)]]
       IN IF IsNullish(tag) THEN Throw(TypeError)
          ELSE Ret(Obj(<< <<"website", Get(website, "url")>>,
                          <<"type", Or(Get(tag, "category"), Str("Portfolio"))>> >>))

\* Object.keys(website.type) throws on null and undefined; so does reading
\* .category of website.type[undefined]
_scrubWebsiteInfo(website) ==
  IF IsNullish(website) \/ IsNullish(Get(website, "type")) THEN Throw(TypeError)
  ELSE LET type == Get(website, "type")
           categoryType == IF IsObj(type) THEN FirstKey(type) ELSE Undefined
           tag == IF categoryType = Undefined THEN Undefined ELSE type.o[categoryType.s]
       IN IF IsNullish(tag) THEN Throw(TypeError)
          ELSE Ret(Obj(<< <<"website", Get(website, "url")>>,
                          <<"type", Or(Get(tag, "category"), Str("Portfolio"))>> >>))

(***************************************************************************)
(* _scrubFullProfileResponse.  The statements are evaluated in program     *)
(* order; the first one that throws ends the call.                         *)
(***************************************************************************)
\* profile.<view>.elements.map(f)
MapView(profile, view, F(_)) ==
  IF IsNullish(Get(profile, view)) THEN Throw(TypeError)
  ELSE ArrMap(Get(Get(profile, view), "elements"), F)

IsCurrentPositionIgnoresEnd(p) ==
  Has(p, "timePeriod") /\ Has(p.o["timePeriod"], "startDate")

\* lines 441-442: the positions with a startDate and no endDate
IsCurrentPosition(p) ==
  /\ Has(p, "timePeriod")
  /\ Has(p.o["timePeriod"], "startDate")
  /\ ~Has(p.o["timePeriod"], "endDate")

\* p.timePeriod.hasOwnProperty throws when timePeriod is null
CurrentFilterThrows(elements) ==
  \E i \in 1..Len(elements) :
    Has(elements[i], "timePeriod") /\ IsNullish(elements[i].o["timePeriod"])

\* lines 440-445, given the headline and occupation computed above
Occupation(profile, headline, occupation) ==
  IF headline # occupation THEN occupation
  ELSE LET elements == Get(Get(profile, "positionView"), "elements").a
           currentPositions == SelectSeq(elements, IsCurrentPosition)
           currentPosition == IF Len(currentPositions) = 0 THEN EmptyObj
                              ELSE currentPositions[1]
       IN Or(Get(currentPosition, "title"), EmptyStr)

_scrubFullProfileResponse(profile) ==
  LET p == Get(profile, "profile")
      mini == Get(p, "miniProfile")
      pictureInfo == Get(p, "pictureInfo")
      headline == Or(Get(p, "headline"), EmptyStr)
      occupation == Or(Get(mini, "occupation"), EmptyStr)
      twitterHandles ==
        IF Has(profile, "twitterHandles")
        THEN ArrMap(profile.o["twitterHandles"], NameOf)
        ELSE Ret(EmptyArr)
      education == MapView(profile, "educationView", _scrubEducationInfo)
      patents == MapView(profile, "patentView", _scrubPatentInfo)
      publications == MapView(profile, "publicationView", _scrubPublicationInfo)
      projects == MapView(profile, "projectView", _scrubProjectInfo)
      positions == MapView(profile, "positionView", _scrubPositionInfo)
      languages == MapView(profile, "languageView", NameOf)
      skills == MapView(profile, "skillView", NameOf)
      hasWebsites ==
        Has(profile, "websites") /\ ~IsNullish(profile.o["websites"])
          /\ NonEmptyLength(profile.o["websites"])
      websites ==
        IF ~Has(profile, "websites") THEN Ret(Undefined)
        ELSE IF IsNullish(profile.o["websites"]) THEN Throw(TypeError)
        ELSE IF ~hasWebsites THEN Ret(Undefined)
        ELSE ArrMap(profile.o["websites"], _scrubWebsiteInfo)
      statements ==
        << IF IsNullish(p) THEN Throw(TypeError) ELSE Ret(Undefined),
           IF IsNullish(mini) THEN Throw(TypeError) ELSE Ret(Undefined),
           twitterHandles,
           IF Has(p, "pictureInfo") /\ IsNullish(pictureInfo)
             THEN Throw(TypeError) ELSE Ret(Undefined),
           education, patents, publications, projects, positions, languages,
           skills, websites,
           IF ~positions.threw /\ headline = occupation
                /\ CurrentFilterThrows(Get(Get(profile, "positionView"), "elements").a)
             THEN Throw(TypeError) ELSE Ret(Undefined) >>
      socialProfile ==
        Obj(<< <<"source", Str("LinkedIn")>>,
               <<"firstname", Or(Get(p, "firstName"), EmptyStr)>>,
               <<"lastname", Or(Get(p, "lastName"), EmptyStr)>>,
               <<"headline", headline>>,
               <<"industryName", Or(Get(p, "industryName"), EmptyStr)>>,
               <<"summary", Or(Get(p, "summary"), EmptyStr)>>,
               <<"location", Or(Get(p, "locationName"), EmptyStr)>>,
               <<"emailAddress", Or(Get(profile, "emailAddress"), EmptyStr)>>,
               <<"publicIdentifier", Get(profile, "publicIdentifier")>>,
               <<"occupation", Occupation(profile, headline, occupation)>>,
               <<"address", Or(Get(p, "address"), EmptyStr)>>,
               <<"birthdate", Or(Get(profile, "birthDateOn"), EmptyObj)>>,
               <<"phoneNumbers", IF Has(profile, "phoneNumbers")
                                 THEN profile.o["phoneNumbers"] ELSE EmptyArr>>,
               <<"twitterHandles", twitterHandles.value>>,
               <<"picture", IF Has(p, "pictureInfo") /\ Has(pictureInfo, "masterImage")
                            THEN Str(LI_CDN \o pictureInfo.o["masterImage"].s)
                            ELSE EmptyStr>>,
               <<"education", education.value>>,
               <<"patents", patents.value>>,
               <<"publications", publications.value>>,
               <<"projects", projects.value>>,
               <<"positions", positions.value>>,
               <<"languages", languages.value>>,
               <<"skills", skills.value>> >>)
  IN IF AnyThrow(statements) THEN FirstThrow(statements)
     ELSE Ret(IF hasWebsites THEN Put(socialProfile, "websites", websites.value)
              ELSE socialProfile)

\* the statements of _scrubFullProfileResponse before line 429
ThrowsBeforeProjects(profile) ==
  LET p == Get(profile, "profile")
  IN \/ IsNullish(p)
     \/ IsNullish(Get(p, "miniProfile"))
     \/ Has(profile, "twitterHandles") /\ ArrMap(profile.o["twitterHandles"], NameOf).threw
     \/ Has(p, "pictureInfo") /\ IsNullish(Get(p, "pictureInfo"))
     \/ MapView(profile, "educationView", _scrubEducationInfo).threw
     \/ MapView(profile, "patentView", _scrubPatentInfo).threw
     \/ MapView(profile, "publicationView", _scrubPublicationInfo).threw

\* the raw profile as _scrubFullProfileResponse leaves it: line 429 has
\* rewritten the member list of every project it got to
ProfileAfterScrub(profile) ==
  LET view == Get(profile, "projectView")
      elements == Get(view, "elements")
  IN IF ThrowsBeforeProjects(profile) \/ ~IsArr(elements) THEN profile
     ELSE LET reached(i) == \A j \in 1..(i - 1) : ~_scrubProjectInfo(elements.a[j]).threw
              after == [i \in 1..Len(elements.a) |->
                          IF reached(i) THEN ProjectAfterScrub(elements.a[i])
                          ELSE elements.a[i]]
          IN Put(profile, "projectView", Put(view, "elements", Arr(after)))

(***************************************************************************)
(* extractRootDomain (utils.js), on character sequences.                   *)
(***************************************************************************)
\* s.indexOf(needle), 0-based; -1 when needle does not occur
IndexOf(s, needle) ==
  LET at(i) == i + Len(needle) - 1 <= Len(s) /\ SubSeq(s, i, i + Len(needle) - 1) = needle
  IN IF \E i \in 1..Len(s) : at(i)
     THEN (CHOOSE i \in 1..Len(s) : at(i) /\ \A j \in 1..(i - 1) : ~at(j)) - 1
     ELSE -1

UndefinedText == <<"u", "n", "d", "e", "f", "i", "n", "e", "d">>

extractRootDomain(domain) ==
  IF ~Truthy(domain) THEN EmptyStr
  ELSE LET d == Text(domain)
           protocolIndex == IndexOf(d, <<":", "/", "/">>)
           remainingUrl == SubSeq(d, protocolIndex + 4, Len(d))
           slash == IndexOf(remainingUrl, <<"/">>)
           domainIndex == IF slash = -1 THEN Len(remainingUrl) ELSE slash
           domainParts == Split(SubSeq(remainingUrl, 1, domainIndex), ".")
           n == Len(domainParts)
           host == CASE n = 2 -> domainParts[1]
                     [] n \in {3, 4} -> domainParts[2]
                     [] OTHER -> UndefinedText
           tld == CASE n = 2 -> domainParts[2]
                    [] n = 3 -> domainParts[3]
                    [] n = 4 -> domainParts[3] \o <<".">> \o domainParts[4]
                    [] OTHER -> UndefinedText
       IN IF protocolIndex = -1 THEN domain
          ELSE Chars(host \o <<".">> \o tld)

(***************************************************************************)
(* _scrubCompanyResponse.                                                  *)
(***************************************************************************)
\* companyResponse.companyIndustries.map(c => c.localizedName)
LocalizedNameOf(x) == IF IsNullish(x) THEN Throw(TypeError) ELSE Ret(Get(x, "localizedName"))

\* an optional block of fields: added when the guard holds
With(company, guard, pairs) == IF guard THEN Assign(company, Obj(pairs)) ELSE company

_scrubCompanyResponse(companyResponse) ==
  LET c == companyResponse
      hq == Get(c, "headquarter")
      logo == Get(c, "logo")
      cover == Get(c, "backgroundCoverImage")
      parentId == _scrubIdFromUrn(Get(c, "parentCompany"))
      linkedInId == _scrubIdFromUrn(Get(c, "entityUrn"))
      industries ==
        IF Has(c, "companyIndustries")
        THEN ArrMap(c.o["companyIndustries"], LocalizedNameOf) ELSE Ret(Undefined)
      hasLogo == Has(c, "logo") /\ Has(logo, "image")
      hasCover == Has(c, "backgroundCoverImage") /\ Has(cover, "image")
      logoPath == IF hasLogo THEN _scrubPathToResource(logo.o["image"]) ELSE Ret(Undefined)
      coverPath == IF hasCover THEN _scrubPathToResource(cover.o["image"]) ELSE Ret(Undefined)
      photoPath ==
        IF Has(c, "backgroundCoverPhoto")
        THEN _scrubPathToResource(c.o["backgroundCoverPhoto"]) ELSE Ret(Undefined)
      statements ==
        << IF IsNullish(c) THEN Throw(TypeError) ELSE Ret(Undefined),
           IF Has(c, "companyType") /\ IsNullish(c.o["companyType"])
             THEN Throw(TypeError) ELSE Ret(Undefined),
           parentId, linkedInId,
           IF Has(c, "foundedOn") /\ IsNullish(c.o["foundedOn"])
             THEN Throw(TypeError) ELSE Ret(Undefined),
           industries,
           IF Has(c, "headquarter") /\ IsNullish(hq) THEN Throw(TypeError) ELSE Ret(Undefined),
           IF Has(c, "followingInfo") /\ IsNullish(c.o["followingInfo"])
             THEN Throw(TypeError) ELSE Ret(Undefined),
           IF Has(c, "logo") /\ IsNullish(logo) THEN Throw(TypeError) ELSE Ret(Undefined),
           logoPath,
           IF Has(c, "backgroundCoverImage") /\ IsNullish(cover)
             THEN Throw(TypeError) ELSE Ret(Undefined),
           coverPath, photoPath >>
      base ==
        Obj(<< <<"source", Str("LinkedIn")>>,
               <<"affiliatedCompanies", Or(Get(c, "affiliatedCompanies"), EmptyArr)>>,
               <<"pageUrl", Or(Get(c, "companyPageUrl"), EmptyStr)>>,
               <<"domain", extractRootDomain(Get(c, "companyPageUrl"))>>,
               <<"type", IF Has(c, "companyType")
                         THEN Get(c.o["companyType"], "localizedName") ELSE EmptyStr>>,
               <<"confirmedLocations", Or(Get(c, "confirmedLocations"), EmptyArr)>>,
               <<"description", Get(c, "description")>>,
               <<"linkedInUrn", Get(c, "entityUrn")>>,
               <<"name", Get(c, "name")>>,
               <<"specialities", Or(Get(c, "specialities"), EmptyArr)>>,
               <<"universalName", Get(c, "universalName")>>,
               <<"linkedInPageUrl", Or(Get(c, "url"), EmptyStr)>>,
               <<"parentCompanyLinkedInId", parentId.value>>,
               <<"linkedInId", linkedInId.value>> >>)
      c1 == With(base, Has(c, "foundedOn"),
                 << <<"foundedOn", Or(Get(c.o["foundedOn"], "year"), EmptyStr)>> >>)
      c2 == With(c1, Has(c, "companyIndustries"), << <<"industries", industries.value>> >>)
      c3 == With(c2, Has(c, "headquarter"),
                 << <<"city", Or(Get(hq, "city"), EmptyStr)>>,
                    <<"country", Or(Get(hq, "country"), EmptyStr)>>,
                    <<"geographicArea", Or(Get(hq, "geographicArea"), EmptyStr)>>,
                    <<"addr1", Or(Get(hq, "line1"), EmptyStr)>>,
                    <<"addr2", Or(Get(hq, "line2"), EmptyStr)>>,
                    <<"postalCode", Or(Get(hq, "postalCode"), EmptyStr)>> >>)
      c4 == With(c3, Has(c, "followingInfo"),
                 << <<"linkedInFollowerCount",
                      Or(Get(c.o["followingInfo"], "followerCount"), Num(0))>> >>)
      c5 == With(c4, Has(c, "staffCount"), << <<"staffCount", Or(c.o["staffCount"], Num(0))>> >>)
      c6 == With(c5, hasLogo, << <<"logo", Or(logoPath.value, EmptyStr)>> >>)
      c7 == With(c6, hasCover, << <<"backgroundCoverImage", Or(coverPath.value, EmptyStr)>> >>)
  IN IF AnyThrow(statements) THEN FirstThrow(statements)
     ELSE Ret(With(c7, Has(c, "backgroundCoverPhoto"),
                   << <<"backgroundCoverPhoto", Or(photoPath.value, EmptyStr)>> >>))

(***************************************************************************)
(* Promises.  A promise is pending, fulfilled with a value or rejected     *)
(* with a reason; a handler answers with the promise its return value or   *)
(* its throw settles the derived promise to.                               *)
(***************************************************************************)
NoOutcome == [state |-> "none"]
Returned(v) == [state |-> "returned", value |-> v]
Thrown(e) == [state |-> "thrown", error |-> e]
Pending == [state |-> "pending"]
Fulfilled(v) == [state |-> "fulfilled", value |-> v]
Rejected(e) == [state |-> "rejected", reason |-> e]

\* the outcome of a synchronous call
Sync(r) == IF r.threw THEN Thrown(r.error) ELSE Returned(r.value)

\* Promise.resolve(f(...)) inside a handler, where f may throw
Settle(r) == IF r.threw THEN Rejected(r.error) ELSE Fulfilled(r.value)

\* promise.then(onFulfilled)
ThenP(promise, onFulfilled(_)) ==
  IF promise.state = "fulfilled" THEN onFulfilled(promise.value) ELSE promise

\* promise.catch(onRejected)
CatchP(promise, onRejected(_)) ==
  IF promise.state = "rejected" THEN onRejected(promise.reason) ELSE promise

\* resolve(v) or reject(e) inside a promise executor: only the first of the
\* calls settles the promise, the later ones do nothing
SettleOnce(promise, to) == IF promise.state = "pending" THEN to ELSE promise

(***************************************************************************)
(* The storage helpers of utils.js.  chrome.storage.sync calls the         *)
(* completion callback later, from the event loop, with                    *)
(* chrome.runtime.lastError set when the operation failed.                 *)
(***************************************************************************)
\* clearSyncStorage, lines 398-405: the executor hands the callback to
\* chrome.storage.sync.clear and then calls resolve() on line 404
ClearExecutor == SettleOnce(Pending, Fulfilled(Undefined))

\* the completion callback of clearSyncStorage, lines 399-403
ClearOnCompletion(promise, lastError) ==
  IF Truthy(lastError) THEN SettleOnce(promise, Rejected(lastError)) ELSE promise

\* removeSyncStorage, lines 382-389: the executor only hands the callback
\* to chrome.storage.sync.remove
RemoveExecutor == Pending

\* the completion callback of removeSyncStorage, lines 383-388
RemoveOnCompletion(promise, lastError, obj) ==
  IF Truthy(lastError) THEN SettleOnce(promise, Rejected(lastError))
  ELSE SettleOnce(promise, Fulfilled(obj))

(***************************************************************************)
(* The transport: fetch(url, options) answers with a network failure or    *)
(* with a Response, whose body may or may not parse as JSON.               *)
(***************************************************************************)
BASE_URL == "https://www.linkedin.com/voyager/api"

NoAnswer == [kind |-> "none"]
NetworkFailure == [kind |-> "failure"]
Response(status, parses, json) ==
  [kind |-> "response", t |-> "Response", status |-> status,
   ok |-> (status >= 200 /\ status <= 299), parses |-> parses, json |-> json,
   bodyUsed |-> FALSE]

\* the promise fetch() returns, once the answer is known
FetchPromise(answer) ==
  IF answer.kind = "failure" THEN Rejected(NetworkError) ELSE Fulfilled(answer)

\* res.json()
ResJson(res) == IF res.parses THEN Fulfilled(res.json) ELSE Rejected(SyntaxError)

ResourceOnResponseIgnoresStatus(res) == ResJson(res)

\* lines 179-185 of _fetchProfileResource
ResourceOnResponse(res) == IF ~res.ok THEN Rejected(res) ELSE ResJson(res)

ResourceOnErrorRethrows(err) == Rejected(err)

\* lines 186-189 of _fetchProfileResource
ResourceOnError(err) == Fulfilled(EmptyObj)

\* the promise _fetchProfileResource returns, once the answer is known
_fetchProfileResource(answer) ==
  CatchP(ThenP(FetchPromise(answer), ResourceOnResponse), ResourceOnError)

\* the url _fetchProfileResource requests
ResourceUrl(publicIdentifier, resource) ==
  BASE_URL \o "/identity/profiles/" \o publicIdentifier \o "/"
    \o (IF ~Truthy(resource) THEN "profileView" ELSE resource.s)

\* lines 9-11 of _sendRequest: the options are refused
OptionsRefused(requestOptions) ==
  ~IsObj(requestOptions) \/ Len(requestOptions.keys) = 0

SendOnResponseRawFirst(requestOptions, res) ==
  IF Truthy(Get(requestOptions, "raw")) THEN Fulfilled(res)
  ELSE IF ~res.ok THEN Rejected(res)
  ELSE ResJson(res)

\* lines 19-29 of _sendRequest
SendOnResponse(requestOptions, res) ==
  IF ~res.ok THEN Rejected(res)
  ELSE IF Truthy(Get(requestOptions, "raw")) THEN Fulfilled(res)
  ELSE ResJson(res)

\* the promise _sendRequest returns for accepted options, once the answer is
\* known
_sendRequest(requestOptions, answer) ==
  LET onResponse(res) == SendOnResponse(requestOptions, res)
  IN ThenP(FetchPromise(answer), onResponse)

\* lines 77-79 of getCompany: res.elements[0] throws unless res.elements is
\* there; on an empty list it is undefined
CompanyOnResult(res) ==
  LET elements == Get(res, "elements")
  IN IF IsNullish(res) \/ IsNullish(elements) THEN Rejected(TypeError)
     ELSE Settle(_scrubCompanyResponse(
                   IF IsArr(elements) /\ Len(elements.a) > 0 THEN elements.a[1]
                   ELSE Get(elements, "0")))

CompanyOnErrorRethrows(err) == Rejected(err)

\* lines 80-82 of getCompany
CompanyOnError(err) == Fulfilled(EmptyObj)

\* the promise getCompany returns, once the answer is known
getCompany(requestOptions, answer) ==
  CatchP(ThenP(_sendRequest(requestOptions, answer), CompanyOnResult), CompanyOnError)

(***************************************************************************)
(* Inputs.                                                                 *)
(***************************************************************************)
UrnAlphabet == {":", "7", "a"}

RECURSIVE CharSeqs(_)
CharSeqs(n) ==
  IF n = 0 THEN {<<>>}
  ELSE LET shorter == CharSeqs(n - 1)
       IN shorter \cup {Append(s, ch) : s \in shorter, ch \in UrnAlphabet}

CompanyUrn12345 ==
  <<"u", "r", "n", ":", "l", "i", ":", "c", "o", "m", "p", "a", "n", "y", ":",
    "1", "2", "3", "4", "5">>

Urns ==
  {Undefined, Null, Num(7)}
    \cup {Chars(s) : s \in CharSeqs(MaxUrnLen) \cup {CompanyUrn12345, <<" ", "-", "4", "2">>}}

Variants ==
  {Null, Str("x"), EmptyObj, Obj(<< <<"id", Str("/abc")>> >>),
   Obj(<< <<"id", EmptyStr>> >>), Obj(<< <<"width", Num(100)>> >>)}

Resources ==
  {Undefined, Null, Str("/abc"), Num(3), EmptyArr, EmptyObj}
    \cup {Obj(<< <<"original", v>> >>) : v \in Variants}
    \cup {Obj(<< <<"small", v>>, <<"original", w>> >>) : v \in Variants, w \in Variants}

\* an object without the keys ks
Without(x, ks) ==
  [t |-> "object",
   keys |-> SelectSeq(x.keys, LAMBDA k : k \notin ks),
   o |-> [k \in DOMAIN x.o \ ks |-> x.o[k]]]

\* a key that is left out when v is undefined
OptPair(k, v) == IF v = Undefined THEN <<>> ELSE << <<k, v>> >>

RECURSIVE SeqsUpTo(_, _)
SeqsUpTo(S, n) ==
  IF n = 0 THEN {<<>>}
  ELSE LET shorter == SeqsUpTo(S, n - 1)
       IN shorter \cup {Append(q, x) : q \in shorter, x \in S}

Started == Obj(<< <<"startDate", Obj(<< <<"year", Num(2019)>> >>)>> >>)
Ended ==
  Obj(<< <<"startDate", Obj(<< <<"year", Num(2015)>> >>)>>,
         <<"endDate", Obj(<< <<"year", Num(2018)>> >>)>> >>)
VectorImage(id) == Obj(<< <<"com.linkedin.common.VectorImage", Obj(<< <<"id", Str(id)>> >>)>> >>)

PositionPool ==
  { Obj(<< <<"title", Str("Engineer")>>, <<"companyName", Str("Acme")>>,
           <<"companyUrn", Chars(<<"a", ":", "7">>)>>, <<"timePeriod", Started>> >>),
    Obj(<< <<"title", Str("Intern")>>, <<"timePeriod", Ended>> >>),
    Obj(<< <<"companyName", Str("Initech")>>, <<"timePeriod", Started>> >>),
    Obj(<< <<"title", Str("Advisor")>> >>),
    Obj(<< <<"title", Str("CTO")>>, <<"timePeriod", Started>>,
           <<"company", Obj(<< <<"miniCompany", Obj(<< <<"logo", VectorImage("/logo")>> >>)>> >>)>> >>) }

PositionLists == SeqsUpTo(PositionPool, MaxPositions)

Headlines == {Undefined, Str("Engineer"), Str("Founder")}
Occupations == {Undefined, Str("Engineer"), Str("Founder")}

RawMember(first, last) ==
  Obj(<< <<"member", Obj(<< <<"firstName", Str(first)>>, <<"lastName", Str(last)>>,
                            <<"occupation", Str("Researcher")>>,
                            <<"publicIdentifier", Str(first)>> >>)>> >>)

\* the raw projects handed to _scrubProjectInfo directly
RawProjects ==
  { Obj(<< <<"title", Str("Apollo")>>,
           <<"members", Arr(<< RawMember("Ann", "Lee"), RawMember("Bo", "Ek") >>)>> >>),
    Obj(<< <<"title", Str("Gemini")>>, <<"description", Str("Two seats")>>,
           <<"url", Str("https://gemini.example.com")>>, <<"timePeriod", Ended>>,
           <<"members", Arr(<< RawMember("Cy", "Dahl") >>)>> >>),
    Obj(<< <<"title", Str("Mercury")>>,
           <<"members",
             Arr(<< Put(RawMember("Di", "Moe"), "member",
                        Put(RawMember("Di", "Moe").o["member"], "picture",
                            VectorImage("/p/di"))),
                    Null >>)>> >>),
    Obj(<< <<"title", Str("Vostok")>>, <<"members", EmptyArr>> >>),
    Obj(<< <<"title", Str("Solo")>> >>) }

\* the body of the profileView resource
ProfileView(headline, occupation, positions) ==
  Obj(<< <<"profile",
           Obj(<< <<"firstName", Str("Ann")>>, <<"lastName", Str("Lee")>> >>
               \o OptPair("headline", headline)
               \o << <<"locationName", Str("Oslo")>>,
                     <<"miniProfile", Obj(OptPair("occupation", occupation))>>,
                     <<"pictureInfo", Obj(<< <<"masterImage", Str("/p/ann")>> >>)>> >>)>>,
         <<"educationView",
           Obj(<< <<"elements", Arr(<< Obj(<< <<"schoolName", Str("NTNU")>>,
                                              <<"school", Obj(<< <<"schoolName", Str("NTNU")>>,
                                                                 <<"logo", VectorImage("/ntnu")>> >>)>> >>) >>)>> >>)>>,
         <<"patentView",
           Obj(<< <<"elements", Arr(<< Obj(<< <<"title", Str("Widget")>>,
                                              <<"inventors", Arr(<< Obj(<< <<"member", RawMember("Ann", "Lee")>> >>),
                                                                    Obj(<< <<"name", Str("Bo")>> >>) >>)>> >>) >>)>> >>)>>,
         <<"publicationView",
           Obj(<< <<"elements", Arr(<< Obj(<< <<"name", Str("On Widgets")>>,
                                              <<"authors", Arr(<< RawMember("Ann", "Lee") >>)>> >>) >>)>> >>)>>,
         <<"projectView",
           Obj(<< <<"elements", Arr(<< Obj(<< <<"title", Str("Apollo")>>,
                                              <<"members", Arr(<< RawMember("Ann", "Lee"),
                                                                  RawMember("Bo", "Ek") >>)>> >>) >>)>> >>)>>,
         <<"positionView", Obj(<< <<"elements", Arr(positions)>> >>)>>,
         <<"languageView", Obj(<< <<"elements", Arr(<< Obj(<< <<"name", Str("English")>> >>) >>)>> >>)>>,
         <<"skillView", Obj(<< <<"elements", Arr(<< Obj(<< <<"name", Str("TLA+")>> >>) >>)>> >>)>> >>)

\* the body of the profileContactInfo resource
ContactInfo ==
  Obj(<< <<"emailAddress", Str("ann@example.com")>>,
         <<"birthDateOn", Obj(<< <<"month", Num(5)>>, <<"day", Num(17)>> >>)>>,
         <<"phoneNumbers", Arr(<< Obj(<< <<"number", Str("555-0100")>> >>) >>)>>,
         <<"twitterHandles", Arr(<< Obj(<< <<"name", Str("annlee")>> >>) >>)>>,
         <<"websites",
           Arr(<< Obj(<< <<"url", Str("https://ann.example.com")>>,
                         <<"type", Obj(<< <<"com.linkedin.voyager.identity.profile.StandardWebsite",
                                            Obj(<< <<"category", Str("COMPANY")>> >>)>> >>)>> >>),
                  Obj(<< <<"url", Str("https://blog.example.com")>>,
                         <<"type", Obj(<< <<"com.linkedin.voyager.identity.profile.CustomWebsite",
                                            Obj(<< <<"label", Str("blog")>> >>)>> >>)>> >>) >>)>> >>)

StandardWebsite == "com.linkedin.voyager.identity.profile.StandardWebsite"
CustomWebsite == "com.linkedin.voyager.identity.profile.CustomWebsite"

\* the type-tag mappings of a raw website
WebsiteTypes ==
  { Obj(<< <<StandardWebsite, Obj(<< <<"category", Str("COMPANY")>> >>)>> >>),
    Obj(<< <<StandardWebsite, Obj(<< <<"category", EmptyStr>> >>)>> >>),
    Obj(<< <<CustomWebsite, Obj(<< <<"label", Str("blog")>> >>)>> >>),
    Obj(<< <<CustomWebsite, EmptyObj>> >>),
    Obj(<< <<StandardWebsite, Obj(<< <<"category", Str("PERSONAL")>> >>)>>,
           <<CustomWebsite, Obj(<< <<"label", Str("blog")>> >>)>> >>),
    Obj(<< <<CustomWebsite, Obj(<< <<"label", Str("blog")>> >>)>>,
           <<StandardWebsite, Obj(<< <<"category", Str("PERSONAL")>> >>)>> >>),
    EmptyObj }

\* the raw websites handed to _scrubWebsiteInfo directly
RawWebsites ==
  {Obj(<< <<"url", Str("https://ann.example.com")>>, <<"type", type>> >>) : type \in WebsiteTypes}
    \cup {Obj(<< <<"type", type>> >>) : type \in WebsiteTypes}
    \cup {Obj(<< <<"url", Str("https://ann.example.com")>> >>)}

\* chrome.runtime.lastError as a completion callback may find it
RuntimeError == Obj(<< <<"message", Str("QUOTA_BYTES quota exceeded")>> >>)
LastErrors == {Undefined, RuntimeError}

\* the keys handed to removeSyncStorage
StorageKeys == {Str("token"), Arr(<<Str("token"), Str("settings")>>)}

\* the body of the highlights resource
Highlights == Obj(<< <<"elements", Arr(<< Obj(<< <<"type", Str("SHARED_CONNECTIONS")>> >>) >>)>> >>)

\* the combined structure getFullProfile builds from three good answers
RawProfile(headline, occupation, positions) ==
  Assign(Assign(Assign(Obj(<< <<"publicIdentifier", Str("ann")>> >>),
                       ProfileView(headline, occupation, positions)),
                ContactInfo),
         Highlights)

\* the optional parts of the combined structure
OptionalParts ==
  {"profile", "miniProfile", "educationView", "patentView", "publicationView",
   "projectView", "positionView", "languageView", "skillView", "websites"}

\* the combined structure with some of its optional parts absent
Lacking(profile, parts) ==
  LET top == Without(profile, parts \ {"miniProfile"})
  IN IF "miniProfile" \in parts /\ Has(top, "profile")
     THEN Put(top, "profile", Without(top.o["profile"], {"miniProfile"}))
     ELSE top

BasePositions ==
  << Obj(<< <<"title", Str("Intern")>>, <<"timePeriod", Ended>> >>),
     Obj(<< <<"title", Str("Engineer")>>, <<"companyName", Str("Acme")>>,
            <<"companyUrn", Chars(<<"a", ":", "7">>)>>, <<"timePeriod", Started>> >>) >>

RawProfiles ==
  {RawProfile(h, o, ps) : h \in Headlines, o \in Occupations, ps \in PositionLists}
    \cup {Lacking(RawProfile(Str("Founder"), Str("Engineer"), BasePositions), parts) :
            parts \in SUBSET OptionalParts}

Identifiers == {Undefined, EmptyStr, Str("ann")}

ResourceNames == <<"profileView", "profileContactInfo", "highlights">>

\* the bodies the server may send for a sub-resource
Bodies(resource) ==
  CASE resource = "profileView" ->
         {ProfileView(Str("Engineer"), Str("Engineer"), BasePositions),
          ProfileView(Str("Founder"), Undefined, <<>>)}
    [] resource = "profileContactInfo" ->
         {ContactInfo, Obj(<< <<"emailAddress", Str("ann@example.com")>> >>)}
    [] OTHER ->
         {Highlights, Obj(<< <<"emailAddress", Str("other@example.com")>> >>)}

ErrorBody == Obj(<< <<"status", Num(500)>> >>)

\* what fetch() may answer to a request for a sub-resource
ResourceAnswers(resource) ==
  {NetworkFailure, Response(500, TRUE, ErrorBody), Response(404, FALSE, Undefined),
   Response(200, FALSE, Undefined)}
    \cup {Response(200, TRUE, body) : body \in Bodies(resource)}

RawCompanies ==
  { Obj(<< <<"name", Str("Acme")>>, <<"universalName", Str("acme")>>,
           <<"entityUrn", Chars(<<"a", ":", "7">>)>>,
           <<"companyPageUrl", Chars(<<"h", ":", "/", "/", "w", ".", "a", ".", "b", "/", "x">>)>>,
           <<"companyType", Obj(<< <<"localizedName", Str("Public Company")>> >>)>>,
           <<"companyIndustries", Arr(<< Obj(<< <<"localizedName", Str("Software")>> >>) >>)>>,
           <<"headquarter", Obj(<< <<"city", Str("Oslo")>>, <<"country", Str("NO")>> >>)>>,
           <<"logo", Obj(<< <<"image", VectorImage("/acme")>> >>)>> >>),
    Obj(<< <<"name", Str("Initech")>>, <<"parentCompany", Chars(<<"a", ":", "7">>)>> >>),
    Obj(<< <<"name", Str("Hooli")>>, <<"logo", Obj(<< <<"image", EmptyObj>> >>)>> >>),
    EmptyObj }

\* a raw company with every field the normaliser reads
FullCompany ==
  Obj(<< <<"name", Str("Globex")>>, <<"description", Str("Makes widgets")>>,
         <<"universalName", Str("globex")>>,
         <<"entityUrn", Chars(<<"a", ":", "7">>)>>,
         <<"parentCompany", Chars(<<"a", ":", "7", "7">>)>>,
         <<"companyPageUrl", Chars(<<"h", ":", "/", "/", "a", ".", "b">>)>>,
         <<"companyType", Obj(<< <<"localizedName", Str("Privately Held")>> >>)>>,
         <<"companyIndustries", Arr(<< Obj(<< <<"localizedName", Str("Software")>> >>) >>)>>,
         <<"headquarter", Obj(<< <<"city", Str("Oslo")>>, <<"country", Str("NO")>>,
                                 <<"geographicArea", Str("Oslo")>>, <<"line1", Str("Gata 1")>>,
                                 <<"line2", Str("c/o Lee")>>, <<"postalCode", Str("0150")>> >>)>>,
         <<"logo", Obj(<< <<"image", VectorImage("/globex")>> >>)>>,
         <<"backgroundCoverImage", Obj(<< <<"image", VectorImage("/cover")>> >>)>> >>)

\* the raw fields of a company that the server may leave out
CompanyFields ==
  {"name", "description", "universalName", "entityUrn", "parentCompany",
   "companyPageUrl", "companyIndustries", "headquarter", "logo", "backgroundCoverImage"}

\* the raw companies handed to _scrubCompanyResponse directly: the full one,
\* the full one without one of its fields, and the ones of the lookup
ScrubbedCompanies ==
  RawCompanies \cup {FullCompany}
    \cup {Without(FullCompany, {field}) : field \in CompanyFields}
    \cup {Put(FullCompany, "companyPageUrl", Chars(<<"h", ":", "/", "/", "w">>))}

\* the bodies the server may send for the company lookup
CompanyBodies ==
  {Obj(<< <<"elements", Arr(<<c>>)>> >>) : c \in RawCompanies}
    \cup {Obj(<< <<"elements", EmptyArr>> >>), Obj(<< <<"paging", EmptyObj>> >>),
          EmptyObj, Null}

CompanyAnswers ==
  {NetworkFailure, Response(500, TRUE, ErrorBody), Response(404, FALSE, Undefined),
   Response(200, FALSE, Undefined)}
    \cup {Response(200, TRUE, body) : body \in CompanyBodies}

CompanyIds == {"acme", "7"}

\* the request options handed to _sendRequest
OptionSets ==
  {Undefined, Str("GET"), EmptyArr, EmptyObj,
   Obj(<< <<"method", Str("GET")>> >>),
   Obj(<< <<"method", Str("GET")>>, <<"raw", Bool(TRUE)>> >>),
   Obj(<< <<"method", Str("GET")>>, <<"raw", Bool(FALSE)>> >>),
   Obj(<< <<"method", Str("POST")>>, <<"body", Str("{\"q\":1}")>> >>),
   Obj(<< <<"method", Str("POST")>>, <<"body", Obj(<< <<"q", Num(1)>> >>)>>,
          <<"raw", Bool(TRUE)>> >>)}

SendAnswers ==
  {NetworkFailure, Response(500, TRUE, ErrorBody), Response(404, FALSE, Undefined),
   Response(200, FALSE, Undefined), Response(200, TRUE, Highlights),
   Response(201, TRUE, EmptyObj)}

\* JSON.stringify, on the request bodies of the model
JSONStringify(body) ==
  IF body = Obj(<< <<"q", Num(1)>> >>) THEN Str("{\"q\":1}") ELSE Str("null")

\* lines 14-16 of _sendRequest: the options as they are handed to fetch
Serialized(requestOptions) ==
  IF Truthy(Get(requestOptions, "body")) /\ ~IsStr(Get(requestOptions, "body"))
  THEN Put(requestOptions, "body", JSONStringify(requestOptions.o["body"]))
  ELSE requestOptions

Request(url, options) == [url |-> url, options |-> options]

\* the options _fetchProfileResource and getCompany pass to fetch
GetOptions == Obj(<< <<"method", Str("GET")>>, <<"credentials", Str("same-origin")>> >>)

\* `${publicIdentifier}` in a template string
TemplateText(x) == IF x = Undefined THEN "undefined" ELSE x.s

PromiseAllFirstSettled(promises) ==
  IF \E i \in 1..Len(promises) : promises[i].state = "rejected"
  THEN promises[CHOOSE i \in 1..Len(promises) : promises[i].state = "rejected"]
  ELSE IF \E i \in 1..Len(promises) : promises[i].state = "fulfilled"
  THEN Fulfilled(Arr([i \in 1..Len(promises) |->
                        IF promises[i].state = "fulfilled" THEN promises[i].value
                        ELSE EmptyObj]))
  ELSE Pending

\* Promise.all(promises): rejected as soon as one of them is, fulfilled
\* with the values in the order of the promises once all of them are
PromiseAll(promises) ==
  IF \E i \in 1..Len(promises) : promises[i].state = "rejected"
  THEN promises[CHOOSE i \in 1..Len(promises) : promises[i].state = "rejected"]
  ELSE IF \A i \in 1..Len(promises) : promises[i].state = "fulfilled"
  THEN Fulfilled(Arr([i \in 1..Len(promises) |-> promises[i].value]))
  ELSE Pending

RECURSIVE MergeInto(_, _)
\* responses.map(res => Object.assign(fullProfile, res)); Object.assign
\* skips a source that is null or undefined
MergeInto(fullProfile, responses) ==
  IF Len(responses) = 0 THEN fullProfile
  ELSE MergeInto(IF IsObj(Head(responses)) THEN Assign(fullProfile, Head(responses))
                 ELSE fullProfile,
                 Tail(responses))

FullProfileFirstWins(publicIdentifier, responses) ==
  MergeInto(EmptyObj,
            [i \in 1..(Len(responses.a) + 1) |->
               IF i > Len(responses.a) THEN Obj(<< <<"publicIdentifier", publicIdentifier>> >>)
               ELSE responses.a[Len(responses.a) + 1 - i]])

\* line 57-58 of getFullProfile
FullProfile(publicIdentifier, responses) ==
  MergeInto(Obj(<< <<"publicIdentifier", publicIdentifier>> >>), responses.a)

(***************************************************************************)
(* The state machine: one call of one operation of the client, from the    *)
(* call to the settlement of what it returned.                             *)
(*   pc        "idle" before the call, "awaiting" while requests are in    *)
(*             flight, "done" once the outcome is known, "again" once the  *)
(*             caller has normalized the same raw object a second time     *)
(*   op, arg   the operation called and its arguments                      *)
(*   requests  the HTTP requests issued, in order                          *)
(*   pending   the requests not yet answered                               *)
(*   answers   what fetch() answered to each request, in request order     *)
(*   arrived   the requests answered so far, in the order of arrival       *)
(*   sub       the promises of the sub-resource fetches, in request order  *)
(*   outcome   what the caller got: a return value, a thrown error, or     *)
(*             the state of the returned promise                           *)
(*   raw       the raw structure handed to the normaliser, as the          *)
(*             normaliser left it                                          *)
(*   once      the outcome and the raw structure of the first call, once   *)
(*             the caller has normalized the same raw object again         *)
(*   normalizations  how many times _scrubFullProfileResponse has run      *)
(*   storage   chrome.storage.sync: whether the completion callback of the *)
(*             operation is waiting or has run, and chrome.runtime.        *)
(*             lastError as the callback saw it                            *)
(***************************************************************************)
Init ==
  /\ pc = "idle"
  /\ op = "none"
  /\ arg = EmptyObj
  /\ requests = <<>>
  /\ pending = {}
  /\ answers = <<>>
  /\ sub = <<>>
  /\ arrived = <<>>
  /\ outcome = NoOutcome
  /\ raw = Undefined
  /\ once = [outcome |-> NoOutcome, raw |-> Undefined]
  /\ normalizations = 0
  /\ storage = [callback |-> "none", lastError |-> Undefined]

Call_scrubIdFromUrn ==
  /\ pc = "idle"
  /\ \E urn \in Urns :
       /\ arg' = Obj(<< <<"urn", urn>> >>)
       /\ outcome' = Sync(_scrubIdFromUrn(urn))
  /\ op' = "_scrubIdFromUrn"
  /\ pc' = "done"
  /\ UNCHANGED <<requests, pending, answers, sub, raw>>
  /\ UNCHANGED <<arrived, once, normalizations, storage>>

Call_scrubPositionInfo ==
  /\ pc = "idle"
  /\ \E urn \in Urns :
       LET position == Obj(<< <<"title", Str("Engineer")>> >> \o OptPair("companyUrn", urn))
       IN /\ arg' = Obj(<< <<"position", position>> >>)
          /\ outcome' = Sync(_scrubPositionInfo(position))
  /\ op' = "_scrubPositionInfo"
  /\ pc' = "done"
  /\ UNCHANGED <<requests, pending, answers, sub, raw>>
  /\ UNCHANGED <<arrived, once, normalizations, storage>>

Call_scrubPathToResource ==
  /\ pc = "idle"
  /\ \E resource \in Resources :
       /\ arg' = Obj(<< <<"resource", resource>> >>)
       /\ outcome' = Sync(_scrubPathToResource(resource))
  /\ op' = "_scrubPathToResource"
  /\ pc' = "done"
  /\ UNCHANGED <<requests, pending, answers, sub, raw>>
  /\ UNCHANGED <<arrived, once, normalizations, storage>>

Call_scrubFullProfileResponse ==
  /\ pc = "idle"
  /\ \E profile \in RawProfiles :
       /\ arg' = Obj(<< <<"profile", profile>> >>)
       /\ outcome' = Sync(_scrubFullProfileResponse(profile))
       /\ raw' = ProfileAfterScrub(profile)
  /\ op' = "_scrubFullProfileResponse"
  /\ pc' = "done"
  /\ UNCHANGED <<requests, pending, answers, sub>>
  /\ normalizations' = 1
  /\ UNCHANGED <<arrived, once, storage>>

\* line 50 of getFullProfile
IdentifierMissingOnlyUndefined(publicIdentifier) == publicIdentifier = Undefined

IdentifierMissing(publicIdentifier) == ~Truthy(publicIdentifier)

\* getFullProfile(publicIdentifier), lines 49-55: the three requests go out
\* in the order of the resources, before any answer is looked at
Call_getFullProfile ==
  /\ pc = "idle"
  /\ op' = "getFullProfile"
  /\ \E publicIdentifier \in Identifiers :
       /\ arg' = Obj(<< <<"publicIdentifier", publicIdentifier>> >>)
       /\ IF IdentifierMissing(publicIdentifier)
          THEN /\ outcome' = Thrown(Error("a public identifier is required"))
               /\ pc' = "done"
               /\ UNCHANGED <<requests, pending, answers, sub>>
          ELSE /\ requests' = [i \in 1..3 |->
                                 Request(ResourceUrl(TemplateText(publicIdentifier),
                                                     Str(ResourceNames[i])),
                                         GetOptions)]
               /\ pending' = {1, 2, 3}
               /\ answers' = [i \in 1..3 |-> NoAnswer]
               /\ sub' = [i \in 1..3 |-> Pending]
               /\ outcome' = Pending
               /\ pc' = "awaiting"
  /\ UNCHANGED raw
  /\ UNCHANGED <<arrived, once, normalizations, storage>>

\* _fetchProfileResource(publicIdentifier, resource), lines 165-178
Call_fetchProfileResource ==
  /\ pc = "idle"
  /\ op' = "_fetchProfileResource"
  /\ \E publicIdentifier \in Identifiers,
        resource \in {Undefined} \cup {Str(ResourceNames[i]) : i \in 1..3} :
       /\ arg' = Obj(<< <<"publicIdentifier", publicIdentifier>>, <<"resource", resource>> >>)
       /\ requests' = << Request(ResourceUrl(TemplateText(publicIdentifier), resource),
                                 GetOptions) >>
  /\ pending' = {1}
  /\ answers' = <<NoAnswer>>
  /\ sub' = <<Pending>>
  /\ outcome' = Pending
  /\ pc' = "awaiting"
  /\ UNCHANGED raw
  /\ UNCHANGED <<arrived, once, normalizations, storage>>

\* the resource a request of _fetchProfileResource asks for
ResourceOf(i) ==
  IF op = "getFullProfile" THEN ResourceNames[i]
  ELSE IF Truthy(Get(arg, "resource")) THEN arg.o["resource"].s
  ELSE "profileView"

\* the answer to the i-th sub-resource request arrives: lines 179-189 run
ResourceSettles(i) ==
  /\ pc = "awaiting"
  /\ op \in {"getFullProfile", "_fetchProfileResource"}
  /\ i \in pending
  /\ \E answer \in ResourceAnswers(ResourceOf(i)) :
       /\ answers' = [answers EXCEPT ![i] = answer]
       /\ sub' = [sub EXCEPT ![i] = _fetchProfileResource(answer)]
       /\ IF op = "_fetchProfileResource"
          THEN outcome' = _fetchProfileResource(answer) /\ pc' = "done"
          ELSE UNCHANGED <<outcome, pc>>
  /\ pending' = pending \ {i}
  /\ UNCHANGED <<op, arg, requests, raw>>
  /\ arrived' = Append(arrived, i)
  /\ UNCHANGED <<once, normalizations, storage>>

\* lines 56-60 of getFullProfile, given the promise of Promise.all
AssembleFullProfile(publicIdentifier, all) ==
  LET onResponses(responses) ==
        Settle(_scrubFullProfileResponse(FullProfile(publicIdentifier, responses)))
  IN ThenP(all, onResponses)

\* Promise.all settles and the callback of lines 56-60 runs
Join ==
  /\ pc = "awaiting"
  /\ op = "getFullProfile"
  /\ PromiseAll(sub).state # "pending"
  /\ outcome' = AssembleFullProfile(arg.o["publicIdentifier"], PromiseAll(sub))
  /\ raw' = IF PromiseAll(sub).state = "fulfilled"
            THEN ProfileAfterScrub(FullProfile(arg.o["publicIdentifier"], PromiseAll(sub).value))
            ELSE raw
  /\ pc' = "done"
  /\ UNCHANGED <<op, arg, requests, pending, answers, sub>>
  /\ normalizations' = IF PromiseAll(sub).state = "fulfilled" THEN 1 ELSE 0
  /\ UNCHANGED <<arrived, once, storage>>

\* _scrubProjectInfo(project): line 309 rewrites project.members in place
Call_scrubProjectInfo ==
  /\ pc = "idle"
  /\ \E project \in RawProjects :
       /\ arg' = Obj(<< <<"project", project>> >>)
       /\ outcome' = Sync(_scrubProjectInfo(project))
       /\ raw' = ProjectAfterScrub(project)
  /\ op' = "_scrubProjectInfo"
  /\ pc' = "done"
  /\ UNCHANGED <<requests, pending, answers, arrived, sub, once, normalizations, storage>>

\* _scrubWebsiteInfo(website)
Call_scrubWebsiteInfo ==
  /\ pc = "idle"
  /\ \E website \in RawWebsites :
       /\ arg' = Obj(<< <<"website", website>> >>)
       /\ outcome' = Sync(_scrubWebsiteInfo(website))
  /\ op' = "_scrubWebsiteInfo"
  /\ pc' = "done"
  /\ UNCHANGED <<requests, pending, answers, arrived, sub, raw, once, normalizations, storage>>

\* _scrubCompanyResponse(companyResponse): it only reads its argument
Call_scrubCompanyResponse ==
  /\ pc = "idle"
  /\ \E companyResponse \in ScrubbedCompanies :
       /\ arg' = Obj(<< <<"companyResponse", companyResponse>> >>)
       /\ outcome' = Sync(_scrubCompanyResponse(companyResponse))
       /\ raw' = companyResponse
  /\ op' = "_scrubCompanyResponse"
  /\ pc' = "done"
  /\ UNCHANGED <<requests, pending, answers, arrived, sub, once, normalizations, storage>>

\* the normalisers a caller may run twice on the same raw object
Normalizers == {"_scrubFullProfileResponse", "_scrubCompanyResponse", "_scrubProjectInfo"}

\* the caller hands the raw object of the first call, as that call left it,
\* to the same normaliser a second time
CallAgain ==
  /\ pc = "done"
  /\ op \in Normalizers
  /\ once' = [outcome |-> outcome, raw |-> raw]
  /\ outcome' = Sync(CASE op = "_scrubFullProfileResponse" -> _scrubFullProfileResponse(raw)
                       [] op = "_scrubCompanyResponse" -> _scrubCompanyResponse(raw)
                       [] OTHER -> _scrubProjectInfo(raw))
  /\ raw' = CASE op = "_scrubFullProfileResponse" -> ProfileAfterScrub(raw)
               [] op = "_scrubCompanyResponse" -> raw
               [] OTHER -> ProjectAfterScrub(raw)
  /\ normalizations' = IF op = "_scrubFullProfileResponse" THEN normalizations + 1
                       ELSE normalizations
  /\ pc' = "again"
  /\ UNCHANGED <<op, arg, requests, pending, answers, arrived, sub, storage>>

\* _sendRequest(url, requestOptions), lines 8-18
Call_sendRequest ==
  /\ pc = "idle"
  /\ op' = "_sendRequest"
  /\ \E requestOptions \in OptionSets :
       /\ arg' = Obj(<< <<"url", Str(BASE_URL)>>, <<"requestOptions", requestOptions>> >>)
       /\ IF IsNullish(requestOptions)
          THEN /\ outcome' = Thrown(TypeError)
               /\ pc' = "done"
               /\ UNCHANGED <<requests, pending, answers>>
          ELSE IF OptionsRefused(requestOptions)
          THEN /\ outcome' = Rejected(Str("A request options object is required"))
               /\ pc' = "done"
               /\ UNCHANGED <<requests, pending, answers>>
          ELSE /\ requests' = << Request(BASE_URL, Serialized(requestOptions)) >>
               /\ pending' = {1}
               /\ answers' = <<NoAnswer>>
               /\ outcome' = Pending
               /\ pc' = "awaiting"
  /\ UNCHANGED <<sub, raw>>
  /\ UNCHANGED <<arrived, once, normalizations, storage>>

\* the answer to the request of _sendRequest arrives: lines 19-29 run
SendRequestSettles ==
  /\ pc = "awaiting"
  /\ op = "_sendRequest"
  /\ 1 \in pending
  /\ \E answer \in SendAnswers :
       /\ answers' = <<answer>>
       /\ outcome' = _sendRequest(arg.o["requestOptions"], answer)
  /\ pending' = {}
  /\ pc' = "done"
  /\ UNCHANGED <<op, arg, requests, sub, raw>>
  /\ arrived' = Append(arrived, 1)
  /\ UNCHANGED <<once, normalizations, storage>>

\* getCompany(companyId), lines 68-76
Call_getCompany ==
  /\ pc = "idle"
  /\ op' = "getCompany"
  /\ \E companyId \in CompanyIds :
       /\ arg' = Obj(<< <<"companyId", Str(companyId)>> >>)
       /\ requests' = << Request(BASE_URL \o "/organization/companies?q=universalName&universalName="
                                   \o companyId,
                                 GetOptions) >>
  /\ pending' = {1}
  /\ answers' = <<NoAnswer>>
  /\ outcome' = Pending
  /\ pc' = "awaiting"
  /\ UNCHANGED <<sub, raw>>
  /\ UNCHANGED <<arrived, once, normalizations, storage>>

\* the answer to the company lookup arrives: lines 19-29 of _sendRequest and
\* lines 77-82 of getCompany run
CompanySettles ==
  /\ pc = "awaiting"
  /\ op = "getCompany"
  /\ 1 \in pending
  /\ \E answer \in CompanyAnswers :
       /\ answers' = <<answer>>
       /\ outcome' = getCompany(GetOptions, answer)
  /\ pending' = {}
  /\ pc' = "done"
  /\ UNCHANGED <<op, arg, requests, sub, raw>>
  /\ arrived' = Append(arrived, 1)
  /\ UNCHANGED <<once, normalizations, storage>>

\* clearSyncStorage(), lines 397-406, up to the return of the promise
Call_clearSyncStorage ==
  /\ pc = "idle"
  /\ op' = "clearSyncStorage"
  /\ arg' = EmptyObj
  /\ storage' = [callback |-> "waiting", lastError |-> Undefined]
  /\ outcome' = ClearExecutor
  /\ pc' = "awaiting"
  /\ UNCHANGED <<requests, pending, answers, arrived, sub, raw, once, normalizations>>

\* chrome.storage.sync.clear completes and calls back, lines 399-403
ClearCompletes ==
  /\ pc = "awaiting"
  /\ op = "clearSyncStorage"
  /\ storage.callback = "waiting"
  /\ \E lastError \in LastErrors :
       /\ storage' = [callback |-> "ran", lastError |-> lastError]
       /\ outcome' = ClearOnCompletion(outcome, lastError)
  /\ pc' = "done"
  /\ UNCHANGED <<op, arg, requests, pending, answers, arrived, sub, raw, once, normalizations>>

\* removeSyncStorage(key), lines 381-390, up to the return of the promise
Call_removeSyncStorage ==
  /\ pc = "idle"
  /\ op' = "removeSyncStorage"
  /\ \E key \in StorageKeys : arg' = Obj(<< <<"key", key>> >>)
  /\ storage' = [callback |-> "waiting", lastError |-> Undefined]
  /\ outcome' = RemoveExecutor
  /\ pc' = "awaiting"
  /\ UNCHANGED <<requests, pending, answers, arrived, sub, raw, once, normalizations>>

\* chrome.storage.sync.remove completes and calls back, lines 383-388
RemoveCompletes ==
  /\ pc = "awaiting"
  /\ op = "removeSyncStorage"
  /\ storage.callback = "waiting"
  /\ \E lastError \in LastErrors :
       /\ storage' = [callback |-> "ran", lastError |-> lastError]
       /\ outcome' = RemoveOnCompletion(outcome, lastError, Undefined)
  /\ pc' = "done"
  /\ UNCHANGED <<op, arg, requests, pending, answers, arrived, sub, raw, once, normalizations>>

Next ==
  \/ Call_scrubIdFromUrn
  \/ Call_scrubPositionInfo
  \/ Call_scrubPathToResource
  \/ Call_scrubFullProfileResponse
  \/ Call_scrubProjectInfo
  \/ Call_scrubWebsiteInfo
  \/ Call_scrubCompanyResponse
  \/ CallAgain
  \/ Call_getFullProfile
  \/ Call_fetchProfileResource
  \/ \E i \in 1..3 : ResourceSettles(i)
  \/ Join
  \/ Call_sendRequest
  \/ SendRequestSettles
  \/ Call_getCompany
  \/ CompanySettles
  \/ Call_clearSyncStorage
  \/ ClearCompletes
  \/ Call_removeSyncStorage
  \/ RemoveCompletes

Spec == Init /\ [][Next]_vars

(***************************************************************************)
(* Properties.                                                             *)
(***************************************************************************)
\* what fetch() answered
Answered(answer) == answer.kind # "none"
Succeeded(answer) == answer.kind = "response" /\ answer.ok /\ answer.parses
FailedHard(answer) == answer.kind = "failure" \/ (answer.kind = "response" /\ ~answer.ok)

ContactKeys == {"emailAddress", "phoneNumbers", "twitterHandles", "birthDateOn", "websites"}
ViewKeys ==
  {"educationView", "patentView", "publicationView", "projectView", "positionView",
   "languageView", "skillView"}

WellFormedProfileView(body) ==
  /\ Has(body, "profile")
  /\ Has(body.o["profile"], "miniProfile")
  /\ \A v \in ViewKeys : Has(body, v) /\ IsArr(Get(body.o[v], "elements"))
  /\ DOMAIN body.o \cap ContactKeys = {}

WellFormedHighlights(body) ==
  IsObj(body) /\ DOMAIN body.o \cap (ContactKeys \cup ViewKeys \cup {"profile"}) = {}

FullProfileDone == op = "getFullProfile" /\ pc = "done" /\ Len(answers) = 3

ContactOnlyFailed ==
  /\ FullProfileDone
  /\ Succeeded(answers[1]) /\ WellFormedProfileView(answers[1].json)
  /\ FailedHard(answers[2])
  /\ Succeeded(answers[3]) /\ WellFormedHighlights(answers[3].json)

\* C1: when only the profileContactInfo sub-fetch of getFullProfile fails
\* (network error or non-2xx) and the other two answer with well-formed
\* bodies, the call is fulfilled, the profile carries the profileView data
\* (the highlights body is in the combined structure), and emailAddress,
\* phoneNumbers, twitterHandles and birthdate hold their defaults.
C1_ContactFailureDegrades ==
  ContactOnlyFailed =>
    /\ outcome.state = "fulfilled"
    /\ LET v == outcome.value.o
           view == answers[1].json.o
       IN /\ v["emailAddress"] = EmptyStr
          /\ v["phoneNumbers"] = EmptyArr
          /\ v["twitterHandles"] = EmptyArr
          /\ v["birthdate"] = EmptyObj
          /\ "websites" \notin DOMAIN v
          /\ v["publicIdentifier"] = arg.o["publicIdentifier"]
          /\ v["firstname"] = view["profile"].o["firstName"]
          /\ v["lastname"] = view["profile"].o["lastName"]
          /\ v["headline"] = view["profile"].o["headline"]
          /\ v["location"] = view["profile"].o["locationName"]
          /\ Len(v["positions"].a) = Len(view["positionView"].o["elements"].a)
          /\ Len(v["education"].a) = Len(view["educationView"].o["elements"].a)
          /\ Len(v["projects"].a) = Len(view["projectView"].o["elements"].a)
          /\ \A k \in DOMAIN answers[3].json.o : Get(raw, k) = answers[3].json.o[k]

C1_Witness ==
  /\ ContactOnlyFailed
  /\ outcome.state = "fulfilled"
  /\ outcome.value.o["firstname"] = Str("Ann")
  /\ outcome.value.o["emailAddress"] = EmptyStr

\* C2: for every non-empty identifier and every combination of success and
\* failure of the three sub-fetches, the promise of getFullProfile is
\* fulfilled with a normalized profile and never rejected.
C2_NeverRejects ==
  FullProfileDone => outcome.state = "fulfilled"

\* C3: getFullProfile with an absent or empty identifier fails at once with
\* the error 'a public identifier is required', and no request is issued
\* for that call.
C3_MissingIdentifierFailsFast ==
  (op = "getFullProfile" /\ ~Truthy(arg.o["publicIdentifier"])) =>
    /\ pc = "done"
    /\ outcome = Thrown(Error("a public identifier is required"))
    /\ requests = <<>>
    /\ pending = {}

C3_Witness ==
  /\ op = "getFullProfile"
  /\ arg.o["publicIdentifier"] = EmptyStr
  /\ outcome.state = "thrown"
  /\ requests = <<>>

\* C4: _fetchProfileResource issues exactly one GET request and its promise
\* is never rejected: when the request fails (network failure, non-2xx
\* status, unparseable body) it is fulfilled with the empty mapping, and on
\* a 2xx answer with a parseable body it is fulfilled with the parsed JSON.
C4_FetchResourceNeverRejects ==
  op = "_fetchProfileResource" =>
    /\ Len(requests) = 1
    /\ requests[1].options.o["method"] = Str("GET")
    /\ outcome.state \in {"pending", "fulfilled"}
    /\ outcome.state = "pending" <=> pc = "awaiting"
    /\ pc = "done" =>
         outcome.value = IF Succeeded(answers[1]) THEN answers[1].json ELSE EmptyObj

C4_Witness ==
  /\ op = "_fetchProfileResource"
  /\ pc = "done"
  /\ answers[1].kind = "response" /\ ~answers[1].ok
  /\ outcome = Fulfilled(EmptyObj)

\* the company lookup failed at the fetch layer: no answer, a non-2xx
\* status, or a body without a non-empty elements list
CompanyLookupFailed(answer) ==
  \/ ~Succeeded(answer)
  \/ ~IsArr(Get(answer.json, "elements"))
  \/ Len(Get(answer.json, "elements").a) = 0

\* C5: getCompany never hands an error to its caller: its promise is always
\* fulfilled, and with the empty mapping when the lookup failed (network
\* failure, non-2xx status, or elements absent or empty).
C5_GetCompanySwallowsFailures ==
  (op = "getCompany" /\ pc = "done") =>
    /\ outcome.state = "fulfilled"
    /\ CompanyLookupFailed(answers[1]) => outcome.value = EmptyObj

C5_Witness ==
  /\ op = "getCompany"
  /\ pc = "done"
  /\ Succeeded(answers[1])
  /\ Get(answers[1].json, "elements") = EmptyArr
  /\ outcome = Fulfilled(EmptyObj)

\* the options are a non-empty configuration map
NonEmptyOptions(requestOptions) == IsObj(requestOptions) /\ requestOptions.keys # <<>>

SendRequestCalled ==
  op = "_sendRequest" /\ NonEmptyOptions(arg.o["requestOptions"])

\* C6, as claimed: _sendRequest with a non-empty options map issues exactly
\* one request and ends in one of exactly three ways: rejected with the
\* response on a non-2xx status (raw or not), fulfilled with the untouched
\* response on a 2xx status with raw, fulfilled with the parsed JSON body
\* on a 2xx status without raw.
C6_ThreeOutcomes ==
  SendRequestCalled =>
    /\ Len(requests) = 1
    /\ pc = "done" =>
         LET res == answers[1]
             rawFlag == Truthy(Get(arg.o["requestOptions"], "raw"))
         IN /\ res.kind = "response"
            /\ \/ ~res.ok /\ outcome = Rejected(res)
               \/ res.ok /\ rawFlag /\ outcome = Fulfilled(res)
               \/ res.ok /\ ~rawFlag /\ outcome = Fulfilled(res.json)

\* C6, amended: _sendRequest with a non-empty options map issues exactly
\* one request and never retries.  On a non-2xx status it is rejected with
\* the response itself, raw or not; on a 2xx status with raw it is
\* fulfilled with the response, body unread; on a 2xx status without raw it
\* is fulfilled with the parsed JSON body when the body parses and rejected
\* with the parse error when it does not; when the transport fails without
\* a response it is rejected with the transport's error.
C6_OutcomesOfSendRequest ==
  SendRequestCalled =>
    /\ Len(requests) = 1
    /\ pc = "awaiting" <=> outcome = Pending
    /\ pc = "done" =>
         LET res == answers[1]
             rawFlag == Truthy(Get(arg.o["requestOptions"], "raw"))
         IN IF res.kind = "failure" THEN outcome = Rejected(NetworkError)
            ELSE IF ~res.ok THEN outcome = Rejected(res)
            ELSE IF rawFlag THEN outcome = Fulfilled(res) /\ ~outcome.value.bodyUsed
            ELSE IF res.parses THEN outcome = Fulfilled(res.json)
            ELSE outcome = Rejected(SyntaxError)

C6_Witness ==
  /\ SendRequestCalled
  /\ pc = "done"
  /\ Truthy(Get(arg.o["requestOptions"], "raw"))
  /\ answers[1].kind = "response" /\ ~answers[1].ok
  /\ outcome = Rejected(answers[1])

\* a well-formed image-variant mapping: its first variant carries an id
WellFormedVariants(resource) ==
  /\ IsObj(resource)
  /\ resource.keys # <<>>
  /\ Truthy(Get(resource.o[resource.keys[1]], "id"))

\* C7: _scrubPathToResource never throws, and returns the empty string for
\* every input that is not a well-formed image-variant mapping ({}, null,
\* undefined, a non-object, a first variant without an id).
C7_PathNeverThrows ==
  (op = "_scrubPathToResource" /\ pc = "done") =>
    /\ outcome.state = "returned"
    /\ ~WellFormedVariants(arg.o["resource"]) => outcome.value = EmptyStr

IsInteger(x) == x.t = "number" /\ x.n \in Int
IsUrnOrAbsent(urn) == urn = Undefined \/ IsStr(urn)

\* C8: _scrubIdFromUrn returns the integer parsed from the final segment of
\* a non-empty urn string and the empty string for an absent or empty urn,
\* so its result is always an integer or the empty string; the position
\* rule computes linkedInCompanyId by the same rule.
C8_UrnIdIsIntegerOrEmpty ==
  /\ (op = "_scrubIdFromUrn" /\ pc = "done" /\ IsUrnOrAbsent(arg.o["urn"])) =>
       /\ outcome.state = "returned"
       /\ IF Truthy(arg.o["urn"]) THEN IsInteger(outcome.value)
          ELSE outcome.value = EmptyStr
  /\ (op = "_scrubPositionInfo" /\ pc = "done"
        /\ IsUrnOrAbsent(Get(arg.o["position"], "companyUrn"))) =>
       /\ outcome.state = "returned"
       /\ outcome.value.o["linkedInCompanyId"]
            = _scrubIdFromUrn(Get(arg.o["position"], "companyUrn")).value

ScrubProfileReturned ==
  op = "_scrubFullProfileResponse" /\ pc = "done" /\ outcome.state = "returned"

HasStartNoEnd(position) ==
  /\ IsObj(position)
  /\ "timePeriod" \in DOMAIN position.o
  /\ "startDate" \in DOMAIN position.o["timePeriod"].o
  /\ "endDate" \notin DOMAIN position.o["timePeriod"].o

TitleOrEmpty(position) ==
  IF "title" \in DOMAIN position.o /\ position.o["title"] # EmptyStr
  THEN position.o["title"] ELSE EmptyStr

OrEmptyStr(x) == IF x = Undefined \/ x = EmptyStr THEN EmptyStr ELSE x

\* C9: when the normalized headline equals the normalized occupation, the
\* resulting occupation is the title of the first raw position that has a
\* startDate and no endDate, or the empty string when there is no such
\* position or it has no title; when they differ, the occupation stays the
\* (normalized) raw occupation.
C9_OccupationOverride ==
  ScrubProfileReturned =>
    LET profile == arg.o["profile"]
        headline == OrEmptyStr(Get(Get(profile, "profile"), "headline"))
        occupation ==
          OrEmptyStr(Get(Get(Get(profile, "profile"), "miniProfile"), "occupation"))
        positions == profile.o["positionView"].o["elements"].a
        result == outcome.value.o["occupation"]
    IN IF headline = occupation
       THEN \/ \E i \in 1..Len(positions) :
                 /\ HasStartNoEnd(positions[i])
                 /\ \A j \in 1..(i - 1) : ~HasStartNoEnd(positions[j])
                 /\ result = TitleOrEmpty(positions[i])
            \/ /\ \A i \in 1..Len(positions) : ~HasStartNoEnd(positions[i])
               /\ result = EmptyStr
       ELSE result = occupation

C9_Witness ==
  /\ ScrubProfileReturned
  /\ Get(Get(arg.o["profile"], "profile"), "headline") = Str("Founder")
  /\ Get(Get(Get(arg.o["profile"], "profile"), "miniProfile"), "occupation") = Str("Founder")
  /\ Len(arg.o["profile"].o["positionView"].o["elements"].a) = 2
  /\ ~HasStartNoEnd(arg.o["profile"].o["positionView"].o["elements"].a[1])
  /\ Has(arg.o["profile"].o["positionView"].o["elements"].a[1], "timePeriod")
  /\ outcome.value.o["occupation"] = Str("Engineer")

\* the field of the normalized profile that each sub-entity array feeds
FieldOfPart ==
  [educationView |-> "education", patentView |-> "patents",
   publicationView |-> "publications", projectView |-> "projects",
   positionView |-> "positions", languageView |-> "languages",
   skillView |-> "skills", websites |-> "websites"]

ScalarFields ==
  {"firstname", "lastname", "headline", "industryName", "summary", "location",
   "occupation", "address", "picture"}

\* C10: for every combined raw structure lacking any subset of the
\* sub-entity arrays or of the nested profile / miniProfile objects,
\* _scrubFullProfileResponse returns without throwing, every field is
\* present, an absent array yields the empty sequence and, without the
\* profile object, the scalar fields are empty strings.
C10_TotalOverAbsentParts ==
  (op = "_scrubFullProfileResponse" /\ pc = "done") =>
    /\ outcome.state = "returned"
    /\ \A part \in DOMAIN FieldOfPart :
         /\ FieldOfPart[part] \in DOMAIN outcome.value.o
         /\ ~Has(arg.o["profile"], part) => outcome.value.o[FieldOfPart[part]] = EmptyArr
    /\ ~Has(arg.o["profile"], "profile") =>
         \A f \in ScalarFields : outcome.value.o[f] = EmptyStr

\* the normalized fields fed by each raw field of a company
FieldsOfCompanyField ==
  [name |-> {"name"}, description |-> {"description"},
   universalName |-> {"universalName"}, entityUrn |-> {"linkedInUrn", "linkedInId"},
   parentCompany |-> {"parentCompanyLinkedInId"},
   companyPageUrl |-> {"pageUrl", "domain"}, companyIndustries |-> {"industries"},
   headquarter |-> {"city", "country", "geographicArea", "addr1", "addr2", "postalCode"},
   logo |-> {"logo"}, backgroundCoverImage |-> {"backgroundCoverImage"}]

IsEmptyDefault(x) == x \in {EmptyStr, Chars(<<>>), EmptyArr, EmptyObj}

\* C11: every field of the record _scrubCompanyResponse returns is defined
\* for every raw company: when the raw field (name, description,
\* universalName, entityUrn, parentCompany, companyPageUrl, industries,
\* headquarter, logo, cover image) is absent, the normalized field holds an
\* empty string, sequence or mapping, never undefined and never missing.
C11_CompanyFieldsDefined ==
  (op = "_scrubCompanyResponse" /\ pc = "done") =>
    /\ outcome.state = "returned"
    /\ \A field \in DOMAIN FieldsOfCompanyField :
         \A f \in FieldsOfCompanyField[field] :
           /\ f \in DOMAIN outcome.value.o
           /\ outcome.value.o[f] # Undefined
           /\ ~Has(arg.o["companyResponse"], field) => IsEmptyDefault(outcome.value.o[f])

\* the raw project has a non-empty member list
HasMembers(project) ==
  Has(project, "members") /\ IsArr(project.o["members"]) /\ Len(project.o["members"].a) > 0

\* C12: for every raw project with a non-empty member list, the normalized
\* project _scrubProjectInfo returns has a members field holding one
\* member-info entry per raw member, in the order of the raw members.
C12_ProjectCarriesMembers ==
  (op = "_scrubProjectInfo" /\ pc = "done" /\ HasMembers(arg.o["project"])) =>
    /\ outcome.state = "returned"
    /\ "members" \in DOMAIN outcome.value.o
    /\ LET members == arg.o["project"].o["members"].a
           scrubbed == outcome.value.o["members"]
       IN /\ IsArr(scrubbed)
          /\ Len(scrubbed.a) = Len(members)
          /\ \A i \in 1..Len(members) : scrubbed.a[i] = _scrubMemberInfo(members[i]).value

\* the same raw object was normalized twice and the first run completed
NormalizedTwice(normalizer) ==
  op = normalizer /\ pc = "again" /\ once.outcome.state = "returned"

\* C13: normalizing the same raw payload twice in succession with
\* _scrubFullProfileResponse, and likewise with _scrubCompanyResponse, gives
\* two structurally identical outputs whenever the first normalization
\* completes, payloads whose projects carry member lists included.
C13_SameOutputTwice ==
  (NormalizedTwice("_scrubFullProfileResponse") \/ NormalizedTwice("_scrubCompanyResponse")) =>
    outcome = once.outcome

C13_Witness ==
  /\ NormalizedTwice("_scrubFullProfileResponse")
  /\ HasMembers(arg.o["profile"].o["projectView"].o["elements"].a[1])
  /\ Len(outcome.value.o["projects"].a) = 1
  /\ raw # once.raw
  /\ outcome = once.outcome

\* the type mapping of the raw website has at least one key
HasTypeTag(website) ==
  Has(website, "type") /\ IsObj(website.o["type"]) /\ website.o["type"].keys # <<>>

\* C14: _scrubWebsiteInfo derives the type from the first key of the
\* website's type-tag mapping: the category of that entry when it has one,
\* "Portfolio" when it has none; for a website whose type mapping has at
\* least one key the type is never empty and never undefined.
C14_WebsiteTypeFromFirstTag ==
  (op = "_scrubWebsiteInfo" /\ pc = "done" /\ HasTypeTag(arg.o["website"])) =>
    /\ outcome.state = "returned"
    /\ LET type == arg.o["website"].o["type"]
           entry == type.o[type.keys[1]]
           result == outcome.value.o["type"]
       IN /\ result = IF "category" \in DOMAIN entry.o /\ entry.o["category"] # EmptyStr
                      THEN entry.o["category"] ELSE Str("Portfolio")
          /\ result # Undefined
          /\ result # EmptyStr

C14_Witness ==
  /\ op = "_scrubWebsiteInfo"
  /\ pc = "done"
  /\ arg.o["website"].o["type"].keys = <<CustomWebsite, StandardWebsite>>
  /\ outcome.state = "returned"
  /\ outcome.value.o["type"] = Str("Portfolio")

\* C15: the promise clearSyncStorage returns is rejected with the runtime
\* error when the clear operation reports one, and it is not resolved
\* before the completion callback of the clear operation has run.
C15_ClearWaitsForCompletion ==
  op = "clearSyncStorage" =>
    /\ outcome.state = "fulfilled" => storage.callback = "ran"
    /\ (storage.callback = "ran" /\ Truthy(storage.lastError)) =>
         outcome = Rejected(storage.lastError)

\* getFullProfile was called with a non-empty identifier
FullProfileCalled == op = "getFullProfile" /\ Truthy(arg.o["publicIdentifier"])

\* the three requests are out, whatever has arrived; the normaliser has
\* run at most once, and only in the join; the join has all three answers
FanOutFanIn ==
  FullProfileCalled =>
    /\ Len(requests) = 3
    /\ \A i \in 1..3 :
         /\ requests[i].url = BASE_URL \o "/identity/profiles/"
                                \o arg.o["publicIdentifier"].s \o "/" \o ResourceNames[i]
         /\ requests[i].options.o["method"] = Str("GET")
    /\ pending \cup {arrived[i] : i \in 1..Len(arrived)} = {1, 2, 3}
    /\ normalizations = IF pc = "done" THEN 1 ELSE 0
    /\ pc = "done" =>
         /\ pending = {}
         /\ \A i \in 1..3 : sub[i].state = "fulfilled"
    /\ pc = "awaiting" => outcome = Pending
    /\ (pc = "awaiting" /\ pending = {}) => PromiseAll(sub).state = "fulfilled"

\* all three sub-fetches have settled and the join has not run yet
AllSettled == FullProfileCalled /\ pc = "awaiting" /\ pending = {}

\* the join completes: the normaliser has run and the promise is settled
JoinCompletes == pc' = "done" /\ normalizations' = 1 /\ outcome'.state # "pending"

\* C16: getFullProfile with a non-empty identifier issues exactly three
\* requests (profileView, profileContactInfo, highlights), all before any
\* answer is consumed; the normaliser runs exactly once and only after all
\* three sub-fetches have settled; a failed sub-fetch never ends the join
\* early, and in every interleaving of answers and failures the join
\* completes once all three have settled: Promise.all is then fulfilled and
\* the step that follows is the join.
C16_JoinAfterAllSettle ==
  /\ []FanOutFanIn
  /\ [][AllSettled => JoinCompletes]_vars

C16_Witness ==
  /\ FullProfileCalled
  /\ pc = "done"
  /\ arrived = <<2, 3, 1>>
  /\ answers[2].kind = "failure"
  /\ answers[3].kind = "response" /\ ~answers[3].ok
  /\ normalizations = 1

\* the answers of all three sub-fetches were merged
Merged ==
  FullProfileDone /\ \A i \in 1..3 : sub[i].state = "fulfilled" /\ IsObj(sub[i].value)

\* C17: the combined raw structure getFullProfile builds does not depend on
\* the order in which the answers arrive: the mappings are merged in the
\* order profileView, profileContactInfo, highlights on top of
\* {publicIdentifier}, so on a key collision the later resource of that
\* order wins, in every interleaving.  (The projectView is left out of the
\* comparison: the normaliser rewrites its member lists.)
C17_MergeOrderFixed ==
  Merged =>
    LET body(i) == sub[i].value.o
    IN /\ DOMAIN raw.o = {"publicIdentifier"} \cup DOMAIN body(1) \cup DOMAIN body(2)
                            \cup DOMAIN body(3)
       /\ \A k \in DOMAIN raw.o \ {"projectView"} :
            raw.o[k] = IF k \in DOMAIN body(3) THEN body(3)[k]
                       ELSE IF k \in DOMAIN body(2) THEN body(2)[k]
                       ELSE IF k \in DOMAIN body(1) THEN body(1)[k]
                       ELSE arg.o["publicIdentifier"]

C17_Witness ==
  /\ Merged
  /\ arrived = <<3, 2, 1>>
  /\ Has(sub[2].value, "emailAddress")
  /\ Has(sub[3].value, "emailAddress")
  /\ sub[2].value.o["emailAddress"] # sub[3].value.o["emailAddress"]
  /\ raw.o["emailAddress"] = sub[3].value.o["emailAddress"]
  /\ Has(raw, "profile")

\* C18: the in-place rewrite of a raw project's member list is
\* reproducible: after normalizing the same raw project twice its member
\* list equals the list left after normalizing it once, each entry still
\* carrying the names, occupation and public identifier of the original raw
\* member, and no other field of the raw project, and no other part of the
\* raw profile, is modified.
C18_MemberRewriteReproducible ==
  /\ NormalizedTwice("_scrubProjectInfo") =>
       LET project == arg.o["project"]
       IN /\ Get(raw, "members") = Get(once.raw, "members")
          /\ HasMembers(project) =>
               \A i \in 1..Len(project.o["members"].a) :
                 raw.o["members"].a[i] = _scrubMemberInfo(project.o["members"].a[i]).value
          /\ Without(raw, {"members"}) = Without(project, {"members"})
  /\ NormalizedTwice("_scrubFullProfileResponse") =>
       /\ Get(raw, "projectView") = Get(once.raw, "projectView")
       /\ Without(raw, {"projectView"}) = Without(arg.o["profile"], {"projectView"})

====
